---- MODULE Spec2Model ----
(***************************************************************************)
(* Client-side TLS engine of Postfix (src/tls/tls_client.c): the peer name *)
(* matching algorithm, the peer verifier, the session cache adapter and    *)
(* the tls_client_start() handshake orchestration.                         *)
(*                                                                         *)
(* C strings are modelled as sequences of one-character strings (the       *)
(* terminating NUL is the end of the sequence); a null pointer is NULL.    *)
(***************************************************************************)
EXTENDS Integers, Sequences, FiniteSets, TLC

VARIABLES
    pc,                 \* position of the tls_client_start() call
    enforce_peername,   \* argument of tls_client_start()
    peername,           \* argument of tls_client_start()
    serverid,           \* argument of tls_client_start()
    tls_client_cache,   \* file-scope flag "do we cache client sessions"
    TLScontext,         \* the per-connection state, NULL when not allocated
    session,            \* what load_clnt_session() returned to the caller
    lookup,             \* what the cache service did with the lookup
    engine,             \* what the TLS engine reported for this call
    stream,             \* read/write path of the VSTREAM: "plain" or "tls"
    log,                \* the externally visible effects of the call, in order
    result,             \* the return value: "pending", "none" or "TLScontext"
    m_pc,               \* position of the match_hostname() harness
    m_pattern,          \* pattern argument of match_hostname()
    m_hostname,         \* hostname argument of match_hostname()
    m_result,           \* value returned by match_hostname()
    i_pc,               \* position of the tls_client_init() call
    config,             \* which of the smtp_tls_* parameters are non-empty
    init,               \* what tls_client_init() was answered and did
    client_ctx,         \* the SSL_CTX that tls_client_init() builds
    TLScontext_index,   \* file-scope ex_data index, -1 until created
    conn,               \* concurrent connections: the state of each call
    cache,              \* concurrent connections: the entry of their cache key
    server,             \* concurrent connections: what their server presents
    var_smtp_tls_loglevel   \* smtp_tls_loglevel: how much the client logs

vars == <<pc, enforce_peername, peername, serverid, tls_client_cache,
          TLScontext, session, lookup, engine, stream, log, result,
          m_pc, m_pattern, m_hostname, m_result,
          i_pc, config, init, client_ctx, TLScontext_index,
          conn, cache, server, var_smtp_tls_loglevel>>

startVars == <<pc, enforce_peername, peername, serverid, tls_client_cache,
               TLScontext, session, lookup, engine, stream, log, result>>

matchVars == <<m_pc, m_pattern, m_hostname, m_result>>

initVars == <<i_pc, config, init, client_ctx, TLScontext_index>>

\* what a step of tls_client_start() leaves alone
concVars == <<conn, cache, server>>

restVars == <<matchVars, initVars, concVars, var_smtp_tls_loglevel>>

\* the null pointer, for handles
NULL == "NULL"

\* the null pointer, for C strings (no string holds this character)
NULL_STR == <<"NULL">>

(***************************************************************************)
(* Bounds of the model.                                                    *)
(***************************************************************************)
\* longest enumerated pattern and hostname of the match_hostname() harness
MaxLen == 3
\* most entries in a certificate's subjectAltName extension
MaxSan == 2
\* number of connections that run concurrently on one cache key
NumConns == 2

(***************************************************************************)
(* Strings.                                                                *)
(***************************************************************************)
Uppers == <<"A","B","C","D","E","F","G","H","I","J","K","L","M",
            "N","O","P","Q","R","S","T","U","V","W","X","Y","Z">>

Lowers == <<"a","b","c","d","e","f","g","h","i","j","k","l","m",
            "n","o","p","q","r","s","t","u","v","w","x","y","z">>

\* tolower() of the C library, as strcasecmp() applies it to each character
UpperCase == {Uppers[i] : i \in DOMAIN Uppers}

LowerOf ==
    [c \in UpperCase |-> Lowers[CHOOSE i \in DOMAIN Uppers : Uppers[i] = c]]

tolower(c) == IF c \in UpperCase THEN LowerOf[c] ELSE c

\* strcasecmp(): 0 when the strings are equal ignoring case, nonzero otherwise
\* (the sign of a nonzero result is not used by any caller)
RECURSIVE strcasecmp(_, _)
strcasecmp(s1, s2) ==
    IF s1 = <<>> /\ s2 = <<>> THEN 0
    ELSE IF s1 = <<>> THEN -1
    ELSE IF s2 = <<>> THEN 1
    ELSE IF tolower(Head(s1)) # tolower(Head(s2)) THEN 1
    ELSE strcasecmp(Tail(s1), Tail(s2))

\* strchr(): index of the first occurrence of c in s, 0 for the null pointer
strchr(s, c) ==
    IF \E i \in 1..Len(s) : s[i] = c
    THEN CHOOSE i \in 1..Len(s) : s[i] = c /\ \A j \in 1..(i-1) : s[j] # c
    ELSE 0

\* the string that starts n characters into s (the pointer s + n)
Advance(s, n) == SubSeq(s, n + 1, Len(s))

\* mutant of match_hostname: the wild-card also stands for no component at
\* all, "*.X" matching the hostname X
match_hostname_nolabel(pattern, hostname) ==
    \/ strcasecmp(hostname, pattern) = 0
    \/ /\ Len(pattern) >= 3
       /\ pattern[1] = "*"
       /\ pattern[2] = "."
       /\ \/ strcasecmp(hostname, Advance(pattern, 2)) = 0
          \/ /\ strchr(hostname, ".") # 0
             /\ strcasecmp(Advance(hostname, strchr(hostname, ".")),
                           Advance(pattern, 2)) = 0

\* mutant of match_hostname: the wild-card is matched against the whole
\* hostname instead of the text after its first '.'
match_hostname_anysuffix(pattern, hostname) ==
    \/ strcasecmp(hostname, pattern) = 0
    \/ /\ Len(pattern) >= 3
       /\ pattern[1] = "*"
       /\ pattern[2] = "."
       /\ \E i \in 1..Len(hostname) :
             /\ hostname[i] = "."
             /\ strcasecmp(Advance(hostname, i), Advance(pattern, 2)) = 0

\* match_hostname - match hostname against pattern
match_hostname(pattern, hostname) ==
    \/ strcasecmp(hostname, pattern) = 0
    \/ /\ Len(pattern) >= 1 /\ pattern[1] = "*"
       /\ Len(pattern) >= 2 /\ pattern[2] = "."
       /\ Len(pattern) >= 3
       /\ strchr(hostname, ".") # 0
       /\ strcasecmp(Advance(hostname, strchr(hostname, ".")),
                     Advance(pattern, 2)) = 0

(***************************************************************************)
(* The names used as inputs.                                               *)
(***************************************************************************)
EXAMPLE_COM == <<"e","x","a","m","p","l","e",".","c","o","m">>

MAIL_EXAMPLE_COM == <<"m","a","i","l",".">> \o EXAMPLE_COM

WRONG_EXAMPLE_COM == <<"w","r","o","n","g",".">> \o EXAMPLE_COM

A_B_EXAMPLE_COM == <<"a",".","b",".">> \o EXAMPLE_COM

STAR_EXAMPLE_COM == <<"*",".">> \o EXAMPLE_COM

EMPTY == <<>>

Alphabet == {"a", "A", "b", ".", "*"}

RECURSIVE StringsUpTo(_)
StringsUpTo(n) ==
    IF n = 0 THEN {<<>>}
    ELSE LET shorter == StringsUpTo(n - 1)
         IN  shorter \cup {Append(s, c) : s \in shorter, c \in Alphabet}

ExampleNames == {EXAMPLE_COM, MAIL_EXAMPLE_COM, WRONG_EXAMPLE_COM,
                 A_B_EXAMPLE_COM, STAR_EXAMPLE_COM}

MatchInputs == StringsUpTo(MaxLen) \cup ExampleNames

(***************************************************************************)
(* The inputs of tls_client_start() and what the collaborators may answer. *)
(***************************************************************************)
PeerNames == {MAIL_EXAMPLE_COM, EXAMPLE_COM, EMPTY}

ServerIds == {"", "smtp:mail.example.com:25"}

\* subjectAltName entries: dNSName entries and entries of another type
GeneralNames ==
    [type : {"GEN_DNS"},
     data : {MAIL_EXAMPLE_COM, WRONG_EXAMPLE_COM, STAR_EXAMPLE_COM}]
    \cup [type : {"GEN_EMAIL"}, data : {MAIL_EXAMPLE_COM}]

RECURSIVE StacksUpTo(_)
StacksUpTo(n) ==
    IF n = 0 THEN {<<>>}
    ELSE LET shorter == StacksUpTo(n - 1)
         IN  shorter \cup {Append(s, g) : s \in shorter, g \in GeneralNames}

\* the subjectAltName extension of a certificate: absent, or a stack of names
NoSubjectAltName == [present |-> FALSE, names |-> <<>>]

SubjectAltNames ==
    {NoSubjectAltName} \cup [present : {TRUE}, names : StacksUpTo(MaxSan)]

\* what tls_peer_CN() gives: no CommonName that can be extracted, or a string
SubjectCNs == {NULL_STR, EMPTY, MAIL_EXAMPLE_COM, STAR_EXAMPLE_COM}

\* what tls_issuer_CN() gives
IssuerCNs == {NULL_STR, <<"C","A">>}

\* what SSL_get_peer_certificate() gives: the null pointer or a certificate
NoPeerCert ==
    [present |-> FALSE, subjectAltName |-> NoSubjectAltName,
     subject_CN |-> NULL_STR, issuer_CN |-> NULL_STR]

PeerCerts ==
    {NoPeerCert} \cup [present : {TRUE}, subjectAltName : SubjectAltNames,
                       subject_CN : SubjectCNs, issuer_CN : IssuerCNs]

\* what SSL_get_verify_result() gives
VerifyResults == {"X509_V_OK", "X509_V_ERR"}

\* what tls_bio_connect() returns: an engine error, a timeout, completion
ConnectStatus == {-1, 0, 1}

\* what tls_mgr_lookup() returns
LookupStatus == {"TLS_MGR_STAT_OK", "TLS_MGR_STAT_ERR", "TLS_MGR_STAT_FAIL"}

\* how an invocation of the save call-back ends, "none" when the engine
\* does not invoke it
SaveOutcomes == {"none", "passivate_failed", "update_failed", "saved"}

\* one externally visible effect: a request to the cache service, a call
\* into the engine or the stream, or the release of the connection state
Ev(op, id) == [op |-> op, id |-> id]

RECURSIVE Count(_, _)
Count(l, op) ==
    IF l = <<>> THEN 0
    ELSE (IF Head(l).op = op THEN 1 ELSE 0) + Count(Tail(l), op)

\* position of the first effect op in l, 0 when there is none
First(l, op) ==
    IF \E i \in 1..Len(l) : l[i].op = op
    THEN CHOOSE i \in 1..Len(l) :
            l[i].op = op /\ \A j \in 1..(i-1) : l[j].op # op
    ELSE 0

\* what the engine answered during one call, and the locals of
\* verify_extract_peer() when it ran
NoEngine ==
    [ssl_new |-> "untried", ex_data |-> "untried", bio_pair |-> "untried",
     connect |-> "untried", sts |-> 0, peercert |-> NoPeerCert,
     verify_result |-> "X509_V_OK", reused |-> FALSE, save |-> "none",
     verify_extract_peer |-> FALSE, verify_peername |-> FALSE,
     dNSName_found |-> 0, cn_checked |-> FALSE,
     peer_verified |-> FALSE, hostname_matched |-> FALSE,
     peer_CN |-> NULL_STR, issuer_CN |-> NULL_STR, cb_ret |-> -1,
     msg_info |-> <<>>]

(***************************************************************************)
(* The collaborators that live outside tls_client.c.                       *)
(***************************************************************************)
\* tls_alloc_context(): a connection state with every field zero or null
tls_alloc_context ==
    [allocated |-> TRUE, serverid |-> NULL, con |-> NULL, internal_bio |-> NULL,
     network_bio |-> NULL, rbio |-> NULL, wbio |-> NULL,
     enforce_verify_errors |-> FALSE, enforce_CN |-> FALSE,
     hostname_matched |-> FALSE, peer_verified |-> FALSE,
     peer_CN |-> NULL_STR, issuer_CN |-> NULL_STR, session_reused |-> FALSE,
     protocol |-> NULL, cipher_name |-> NULL]

\* the connection state variable when no connection state is allocated
NoContext == [tls_alloc_context EXCEPT !.allocated = FALSE]

\* tls_free_context(): releases the session handle, the network-facing buffer
\* end and the owned strings of the connection state
tls_free_context(l) == Append(l, Ev("tls_free_context", NULL))

\* tls_client_stop(): close notification unless the failure flag is set, then
\* release of the connection state and restoration of the stream
tls_client_stop(failure, l) ==
    LET l1 == IF failure = 0
              THEN Append(l, Ev("tls_bio_shutdown", NULL))
              ELSE l
    IN  Append(tls_free_context(l1), Ev("tls_stream_stop", NULL))

(***************************************************************************)
(* The session cache client.                                               *)
(***************************************************************************)
\* mutant of load_clnt_session: the session is returned whenever the cache
\* service answered, whether or not the data could be activated
load_clnt_session_unchecked(cache_id, status, activates, l) ==
    [session |-> IF status = "TLS_MGR_STAT_OK" THEN "SSL_SESSION" ELSE NULL,
     log |-> Append(l, Ev("tls_mgr_lookup", cache_id))]

\* load_clnt_session - load session from client cache; activates says whether
\* tls_session_activate() can rebuild a session from the data looked up
load_clnt_session(cache_id, status, activates, l) ==
    [session |-> IF status = "TLS_MGR_STAT_OK" /\ activates
                 THEN "SSL_SESSION"
                 ELSE NULL,
     log |-> Append(l, Ev("tls_mgr_lookup", cache_id))]

\* mutant of SSL_get_ex_data: the connection state was never attached
SSL_get_ex_data_unset(ctx, attached) == NoContext

\* SSL_get_ex_data(ssl, TLScontext_index): the connection state attached to
\* the engine session, none when SSL_set_ex_data() has not attached one
SSL_get_ex_data(ctx, attached) == IF attached = "ok" THEN ctx ELSE NoContext

\* mutant of new_client_session_cb: the session is released only with the
\* passivated data
new_client_session_cb_leak(ctx, outcome, l) ==
    LET cache_id == ctx.serverid
    IN  [ret |-> 1,
         log |-> IF outcome # "passivate_failed"
                 THEN Append(Append(l, Ev("tls_mgr_update", cache_id)),
                             Ev("SSL_SESSION_free", NULL))
                 ELSE l]

\* new_client_session_cb - name new session and save it to client cache;
\* outcome says how tls_session_passivate() and tls_mgr_update() end
new_client_session_cb(ctx, outcome, l) ==
    LET cache_id == ctx.serverid
        l1 == IF outcome # "passivate_failed"
              THEN Append(l, Ev("tls_mgr_update", cache_id))
              ELSE l
    IN  [ret |-> 1, log |-> Append(l1, Ev("SSL_SESSION_free", NULL))]

\* mutant of uncache_session: the cache key is not tested
uncache_session_untested(ctx, l) ==
    Append(l, Ev("tls_mgr_delete", ctx.serverid))

\* mutant of uncache_session: the test of the cache key is inverted
uncache_session_inverted(ctx, l) ==
    IF ctx.serverid # NULL
    THEN l
    ELSE Append(l, Ev("tls_mgr_delete", ctx.serverid))

\* uncache_session - remove session from the external cache
uncache_session(ctx, l) ==
    IF ctx.serverid = NULL
    THEN l
    ELSE Append(l, Ev("tls_mgr_delete", ctx.serverid))

(***************************************************************************)
(* The peer verifier.                                                      *)
(***************************************************************************)
\* mutant of VerifyPeername: names are checked whenever a match is required,
\* whether or not the trust chain verified
VerifyPeername_untrusted(enforce_CN, peer_verified) == enforce_CN

\* verify_extract_peer, the local verify_peername
VerifyPeername(enforce_CN, peer_verified) == enforce_CN /\ peer_verified

\* verify_extract_peer, the loop over the subjectAltName entries from entry
\* i on, dNSName_found dNSNames having been seen: it stops at the first
\* dNSName that matches
RECURSIVE SanLoop(_, _, _, _)
SanLoop(gens, i, pn, found) ==
    IF i > Len(gens)
    THEN [dNSName_found |-> found, hostname_matched |-> FALSE]
    ELSE IF gens[i].type = "GEN_DNS"
         THEN IF match_hostname(gens[i].data, pn)
              THEN [dNSName_found |-> found + 1, hostname_matched |-> TRUE]
              ELSE SanLoop(gens, i + 1, pn, found + 1)
         ELSE SanLoop(gens, i + 1, pn, found)

\* mutant of CNFallback: the CommonName is tried whenever names are checked,
\* also when dNSNames were found
CNFallback_always(dNSName_found, verify_peername, peer_CN) ==
    verify_peername /\ peer_CN # EMPTY

\* mutant of CNFallback: an empty CommonName is matched like any other
CNFallback_empty(dNSName_found, verify_peername, peer_CN) ==
    dNSName_found = 0 /\ verify_peername

\* verify_extract_peer, whether the CommonName is matched against the peername
CNFallback(dNSName_found, verify_peername, peer_CN) ==
    /\ dNSName_found = 0 /\ verify_peername
    /\ peer_CN # EMPTY

\* mutant of CNOrEmpty: a name that cannot be extracted is left null
CNOrEmpty_null(cn) == cn

\* verify_extract_peer, the name stored for what tls_peer_CN() or
\* tls_issuer_CN() returned: the empty string stands in for a null result
CNOrEmpty(cn) == IF cn = NULL_STR THEN EMPTY ELSE cn

\* verify_extract_peer - verify peer name and extract peer information: the
\* connection state it leaves, and its locals
verify_extract_peer(pn, peercert, ctx, verify_result) ==
    LET peer_verified == (verify_result = "X509_V_OK")
        verify_peername == VerifyPeername(ctx.enforce_CN, peer_verified)
        gens == peercert.subjectAltName
        san == IF verify_peername /\ gens.present
               THEN SanLoop(gens.names, 1, pn, 0)
               ELSE [dNSName_found |-> 0, hostname_matched |-> FALSE]
        peer_CN == CNOrEmpty(peercert.subject_CN)
        issuer_CN == CNOrEmpty(peercert.issuer_CN)
        cn_checked == CNFallback(san.dNSName_found, verify_peername, peer_CN)
        hostname_matched == IF cn_checked
                            THEN match_hostname(peer_CN, pn)
                            ELSE san.hostname_matched
    IN  [ctx |-> [ctx EXCEPT !.peer_verified = peer_verified,
                             !.peer_CN = peer_CN,
                             !.issuer_CN = issuer_CN,
                             !.hostname_matched = hostname_matched],
         verify_peername |-> verify_peername,
         dNSName_found |-> san.dNSName_found,
         cn_checked |-> cn_checked]

\* what verify_extract_peer() logs at any smtp_tls_loglevel when the name
\* check it made found no match: v is what verify_extract_peer() gives
NameMismatchInfo(v) ==
    (IF v.dNSName_found > 0 /\ ~v.ctx.hostname_matched
     THEN <<"dNSNames in certificate found, but none match">>
     ELSE <<>>)
    \o (IF v.cn_checked /\ ~v.ctx.hostname_matched
        THEN <<"CommonName mis-match">>
        ELSE <<>>)

VerifiedInfo_trust_only(loglevel, ctx) ==
    IF loglevel >= 1
    THEN <<IF ctx.peer_verified THEN "Verified" ELSE "Unverified">>
    ELSE <<>>

\* the summary verify_extract_peer() logs last, from the connection state it
\* has just filled in
VerifiedInfo(loglevel, ctx) ==
    IF loglevel >= 1
    THEN <<IF ctx.peer_verified /\ (~ctx.enforce_CN \/ ctx.hostname_matched)
           THEN "Verified"
           ELSE "Unverified">>
    ELSE <<>>

\* everything verify_extract_peer() logs, in order
verify_extract_peer_info(loglevel, v) ==
    NameMismatchInfo(v) \o VerifiedInfo(loglevel, v.ctx)

\* what tls_client_start() logs once the peer is examined: the refusal of a
\* peer whose name had to match and did not, else the connection summary
StartInfo(loglevel, mismatch) ==
    IF mismatch
    THEN <<"Server certificate could not be verified: hostname mismatch">>
    ELSE IF loglevel >= 1
         THEN <<"TLS connection established">>
         ELSE <<>>

(***************************************************************************)
(* tls_client_init(), one action per step of the call.                     *)
(***************************************************************************)
\* which configuration parameters hold a non-empty string
Configs ==
    [cipherlist : BOOLEAN, cert_file : BOOLEAN, key_file : BOOLEAN,
     dcert_file : BOOLEAN, dkey_file : BOOLEAN]

NoConfig ==
    [cipherlist |-> FALSE, cert_file |-> FALSE, key_file |-> FALSE,
     dcert_file |-> FALSE, dkey_file |-> FALSE]

\* the return values of tls_ext_seed(), tls_set_ca_certificate_info() and
\* tls_set_my_certificate_key_info()
Status == {-1, 0}

PolicyStatus == {"TLS_MGR_STAT_OK", "TLS_MGR_STAT_FAIL"}

\* the cache types that tls_mgr_policy() may report
CacheTypes == SUBSET {"TLS_MGR_SCACHE_CLIENT", "TLS_MGR_SCACHE_SERVER"}

\* no SSL_CTX, and the SSL_CTX as SSL_CTX_new() returns it
NoClientCtx ==
    [allocated |-> FALSE, session_cache_mode |-> "default",
     new_session_cb |-> NULL]

SSL_CTX_new == [NoClientCtx EXCEPT !.allocated = TRUE]

\* what tls_client_init() was answered, its return value and its effects
NoInit ==
    [seed |-> "untried", ctx_new |-> "untried", cipher |-> "untried",
     ca |-> "untried", key |-> "untried", policy |-> "untried",
     cache_types |-> {}, result |-> "pending", log |-> <<>>]

Answer(ok) == IF ok THEN "ok" ELSE "failed"

\* mutant of SSL_CTX_free: the SSL_CTX is not released
SSL_CTX_free_leak(l) == l

\* tls_client_init, the release of the SSL_CTX before a failing return
SSL_CTX_free(l) == Append(l, Ev("SSL_CTX_free", NULL))

\* tls_client_init, the test that decides whether the own certificate and
\* key are loaded
OwnCertConfigured(cfg) == cfg.cert_file \/ cfg.dcert_file

\* mutant of ClientCacheEnabled: the answer of a failed policy query is used
ClientCacheEnabled_unchecked(status, cache_types) ==
    "TLS_MGR_SCACHE_CLIENT" \in cache_types

\* tls_client_init, the value left in tls_client_cache by the test of the
\* policy query
ClientCacheEnabled(status, cache_types) ==
    /\ status = "TLS_MGR_STAT_OK"
    /\ "TLS_MGR_SCACHE_CLIENT" \in cache_types

\* tls_ext_seed(): entropy from the external source, or the call fails.
InitSeed(r) ==
    /\ IF r < 0
       THEN /\ i_pc' = "returned"
            /\ init' = [init EXCEPT !.seed = "failed", !.result = "none"]
       ELSE /\ i_pc' = "SSL_CTX_new"
            /\ init' = [init EXCEPT !.seed = "ok"]
    /\ UNCHANGED <<config, client_ctx, TLScontext_index, startVars,
                   matchVars, concVars,
                   var_smtp_tls_loglevel>>

\* SSL_CTX_new(): the SSL_CTX is created, or the call fails.
InitCtxNew(ok) ==
    /\ IF ok
       THEN /\ i_pc' = "SSL_CTX_set_cipher_list"
            /\ init' = [init EXCEPT
                           !.ctx_new = "ok",
                           !.log = Append(@, Ev("SSL_CTX_new", NULL))]
            /\ client_ctx' = SSL_CTX_new
       ELSE /\ i_pc' = "returned"
            /\ init' = [init EXCEPT !.ctx_new = "failed", !.result = "none"]
            /\ UNCHANGED client_ctx
    /\ UNCHANGED <<config, TLScontext_index, startVars, matchVars,
                   concVars,
                   var_smtp_tls_loglevel>>

\* SSL_CTX_set_cipher_list(), called when a cipher list is configured.
InitCipherList(ok) ==
    /\ IF config.cipherlist
       THEN IF ok
            THEN /\ i_pc' = "tls_set_ca_certificate_info"
                 /\ init' = [init EXCEPT !.cipher = "ok"]
                 /\ UNCHANGED client_ctx
            ELSE /\ i_pc' = "returned"
                 /\ init' = [init EXCEPT !.cipher = "failed",
                                         !.result = "none",
                                         !.log = SSL_CTX_free(@)]
                 /\ client_ctx' = NoClientCtx
       ELSE /\ i_pc' = "tls_set_ca_certificate_info"
            /\ UNCHANGED <<init, client_ctx>>
    /\ UNCHANGED <<config, TLScontext_index, startVars, matchVars,
                   concVars,
                   var_smtp_tls_loglevel>>

\* tls_set_ca_certificate_info(): the trust anchors are loaded, or the call
\* fails.
InitCAInfo(r) ==
    /\ IF r < 0
       THEN /\ i_pc' = "returned"
            /\ init' = [init EXCEPT !.ca = "failed", !.result = "none",
                                    !.log = SSL_CTX_free(@)]
            /\ client_ctx' = NoClientCtx
       ELSE /\ i_pc' = "tls_set_my_certificate_key_info"
            /\ init' = [init EXCEPT !.ca = "ok"]
            /\ UNCHANGED client_ctx
    /\ UNCHANGED <<config, TLScontext_index, startVars, matchVars,
                   concVars,
                   var_smtp_tls_loglevel>>

\* tls_set_my_certificate_key_info(), called when a certificate file is
\* configured: certificate and key are loaded and checked against each other.
InitKeyInfo(r) ==
    /\ IF OwnCertConfigured(config)
       THEN IF r < 0
            THEN /\ i_pc' = "returned"
                 /\ init' = [init EXCEPT !.key = "failed", !.result = "none",
                                         !.log = SSL_CTX_free(@)]
                 /\ client_ctx' = NoClientCtx
            ELSE /\ i_pc' = "tls_mgr_policy"
                 /\ init' = [init EXCEPT !.key = "ok"]
                 /\ UNCHANGED client_ctx
       ELSE /\ i_pc' = "tls_mgr_policy"
            /\ UNCHANGED <<init, client_ctx>>
    /\ UNCHANGED <<config, TLScontext_index, startVars, matchVars,
                   concVars,
                   var_smtp_tls_loglevel>>

\* tls_mgr_policy(): with client caching reported the cache mode is set and
\* the save call-back registered; then the ex_data index is created and the
\* SSL_CTX returned.
InitPolicy(status, cache_types) ==
    /\ i_pc' = "returned"
    /\ LET enabled == ClientCacheEnabled(status, cache_types)
       IN  /\ tls_client_cache' = enabled
           /\ client_ctx' =
                 IF enabled
                 THEN [client_ctx EXCEPT
                          !.session_cache_mode = "SSL_SESS_CACHE_CLIENT",
                          !.new_session_cb = "new_client_session_cb"]
                 ELSE client_ctx
    /\ init' = [init EXCEPT
                   !.policy = Answer(status = "TLS_MGR_STAT_OK"),
                   !.cache_types = IF status = "TLS_MGR_STAT_OK"
                                   THEN cache_types
                                   ELSE {},
                   !.result = "client_ctx"]
    /\ TLScontext_index' = IF TLScontext_index < 0 THEN 0 ELSE TLScontext_index
    /\ UNCHANGED <<config, matchVars, concVars, pc, enforce_peername,
                   peername, serverid,
                   TLScontext, session, lookup, engine, stream, log, result,
                   var_smtp_tls_loglevel>>

\* The caller has the SSL_CTX: connections may start.
InitReturn ==
    /\ i_pc = "returned"
    /\ init.result = "client_ctx"
    /\ i_pc' = "done"
    /\ config' = NoConfig
    /\ init' = NoInit
    /\ pc' = "idle"
    /\ UNCHANGED <<client_ctx, TLScontext_index, matchVars, concVars,
                   enforce_peername, peername, serverid, tls_client_cache,
                   TLScontext, session, lookup, engine, stream, log,
                   result,
                   var_smtp_tls_loglevel>>

\* the state that tls_client_init() leaves when it returns an SSL_CTX
InitDone(enabled) ==
    /\ i_pc = "done"
    /\ config = NoConfig
    /\ init = NoInit
    /\ tls_client_cache = enabled
    /\ client_ctx =
          IF enabled
          THEN [SSL_CTX_new EXCEPT
                   !.session_cache_mode = "SSL_SESS_CACHE_CLIENT",
                   !.new_session_cb = "new_client_session_cb"]
          ELSE SSL_CTX_new
    /\ TLScontext_index = 0

(***************************************************************************)
(* tls_client_start(), one action per step of the call.                    *)
(***************************************************************************)
\* mutant of EnforcementFlags: the name match is switched on in both branches
EnforcementFlags_always(enforce) ==
    [enforce_verify_errors |-> enforce, enforce_CN |-> TRUE]

\* tls_client_start, the verification parameters set from enforce_peername
EnforcementFlags(enforce) ==
    [enforce_verify_errors |-> enforce, enforce_CN |-> enforce]

\* mutant of BioPairFailed: the connection state is not released
BioPairFailed_leak(l) == l

\* tls_client_start, the branch taken when BIO_new_bio_pair() fails
BioPairFailed(l) == tls_free_context(l)

\* mutant of HostnameMismatch: a resumed session is not failed
HostnameMismatch_resumed(enforce, ctx) ==
    enforce /\ ~ctx.hostname_matched /\ ~ctx.session_reused

\* tls_client_start, the test that fails the call after the handshake
HostnameMismatch(enforce, ctx) == enforce /\ ~ctx.hostname_matched

\* The caller enters tls_client_start(): the connection state is allocated
\* and the cache key stored in it.
Call(enforce, pn, sid) ==
    /\ pc' = "SSL_new"
    /\ enforce_peername' = enforce
    /\ peername' = pn
    /\ serverid' = sid
    /\ TLScontext' = [tls_alloc_context EXCEPT !.serverid = sid]
    /\ session' = NULL
    /\ lookup' = "none"
    /\ engine' = NoEngine
    /\ stream' = "plain"
    /\ log' = <<>>
    /\ result' = "pending"
    /\ UNCHANGED <<tls_client_cache, restVars>>

\* SSL_new(): the engine session is created, or the call fails.
SSLNew(ok) ==
    /\ engine' = [engine EXCEPT !.ssl_new = IF ok THEN "ok" ELSE "failed"]
    /\ IF ok
       THEN /\ pc' = "SSL_set_ex_data"
            /\ TLScontext' = [TLScontext EXCEPT !.con = "SSL"]
            /\ UNCHANGED <<log, result>>
       ELSE /\ pc' = "returned"
            /\ log' = tls_free_context(log)
            /\ TLScontext' = NoContext
            /\ result' = "none"
    /\ UNCHANGED <<enforce_peername, peername, serverid, tls_client_cache,
                   session, lookup, stream, restVars>>

\* SSL_set_ex_data(): the connection state is attached to the engine session,
\* or the call fails; then the verification parameters are set.
SetExData(ok) ==
    /\ engine' = [engine EXCEPT !.ex_data = IF ok THEN "ok" ELSE "failed"]
    /\ IF ok
       THEN /\ pc' = "BIO_new_bio_pair"
            /\ TLScontext' =
                  [TLScontext EXCEPT
                      !.enforce_verify_errors =
                          EnforcementFlags(enforce_peername).enforce_verify_errors,
                      !.enforce_CN =
                          EnforcementFlags(enforce_peername).enforce_CN,
                      !.hostname_matched = FALSE]
            /\ UNCHANGED <<log, result>>
       ELSE /\ pc' = "returned"
            /\ log' = tls_free_context(log)
            /\ TLScontext' = NoContext
            /\ result' = "none"
    /\ UNCHANGED <<enforce_peername, peername, serverid, tls_client_cache,
                   session, lookup, stream, restVars>>

\* BIO_new_bio_pair(): the buffer pair is created, or the call fails.
BioPair(ok) ==
    /\ engine' = [engine EXCEPT !.bio_pair = IF ok THEN "ok" ELSE "failed"]
    /\ IF ok
       THEN /\ pc' = "load_clnt_session"
            /\ TLScontext' = [TLScontext EXCEPT !.internal_bio = "BIO",
                                                !.network_bio = "BIO"]
            /\ UNCHANGED <<log, result>>
       ELSE /\ pc' = "returned"
            /\ log' = BioPairFailed(log)
            /\ TLScontext' = NoContext
            /\ result' = "none"
    /\ UNCHANGED <<enforce_peername, peername, serverid, tls_client_cache,
                   session, lookup, stream, restVars>>

\* mutant of LoadSession: the engine session is bound to the buffer pair
\* before the cache is consulted
LoadSession_bound_first(status, activates) ==
    /\ pc' = "tls_bio_connect"
    /\ LET l0 == Append(log, Ev("SSL_set_bio", NULL))
           got == load_clnt_session(serverid, status, activates, l0)
           l1 == IF tls_client_cache THEN got.log ELSE l0
           s == IF tls_client_cache THEN got.session ELSE NULL
       IN  /\ session' = s
           /\ lookup' = IF ~tls_client_cache THEN "none"
                        ELSE IF status = "TLS_MGR_STAT_OK" /\ activates
                             THEN "hit"
                        ELSE IF status = "TLS_MGR_STAT_OK" THEN "corrupt"
                        ELSE IF status = "TLS_MGR_STAT_ERR" THEN "miss"
                        ELSE "unreachable"
           /\ log' = IF s # NULL
                     THEN Append(l1, Ev("SSL_set_session", NULL))
                     ELSE l1
    /\ TLScontext' = [TLScontext EXCEPT !.rbio = TLScontext.internal_bio,
                                        !.wbio = TLScontext.internal_bio]
    /\ UNCHANGED <<enforce_peername, peername, serverid, tls_client_cache,
                   engine, stream, result, restVars>>

\* The cache is consulted when client caching is on and a session found is
\* handed to the engine; then the engine session is put in connect state and
\* bound to the engine-facing end of the buffer pair.
LoadSession(status, activates) ==
    /\ pc' = "tls_bio_connect"
    /\ LET got == load_clnt_session(serverid, status, activates, log)
           l1 == IF tls_client_cache THEN got.log ELSE log
           s == IF tls_client_cache THEN got.session ELSE NULL
           l2 == IF s # NULL
                 THEN Append(l1, Ev("SSL_set_session", NULL))
                 ELSE l1
       IN  /\ session' = s
           /\ lookup' = IF ~tls_client_cache THEN "none"
                        ELSE IF status = "TLS_MGR_STAT_OK" /\ activates
                             THEN "hit"
                        ELSE IF status = "TLS_MGR_STAT_OK" THEN "corrupt"
                        ELSE IF status = "TLS_MGR_STAT_ERR" THEN "miss"
                        ELSE "unreachable"
           /\ log' = Append(l2, Ev("SSL_set_bio", NULL))
    /\ TLScontext' = [TLScontext EXCEPT !.rbio = TLScontext.internal_bio,
                                        !.wbio = TLScontext.internal_bio]
    /\ UNCHANGED <<enforce_peername, peername, serverid, tls_client_cache,
                   engine, stream, result, restVars>>

\* mutant of ConnectFailed: after a timeout the handshake is tried once more
ConnectFailed_retry(sts) ==
    /\ sts <= 0
    /\ IF sts = 0 /\ Count(log, "tls_bio_connect") = 0
       THEN /\ pc' = "tls_bio_connect"
            /\ log' = Append(log, Ev("tls_bio_connect", NULL))
            /\ UNCHANGED <<engine, TLScontext, result>>
       ELSE /\ pc' = "returned"
            /\ engine' = [engine EXCEPT !.connect = "failed", !.sts = sts]
            /\ log' = tls_free_context(
                          uncache_session(TLScontext,
                              Append(log, Ev("tls_bio_connect", NULL))))
            /\ TLScontext' = NoContext
            /\ result' = "none"
    /\ UNCHANGED <<enforce_peername, peername, serverid, tls_client_cache,
                   session, lookup, stream, restVars>>

\* mutant of ConnectFailed: the stream is switched to the secure channel
\* before the result of the handshake is tested
ConnectFailed_redirected(sts) ==
    /\ sts <= 0
    /\ pc' = "returned"
    /\ engine' = [engine EXCEPT !.connect = "failed", !.sts = sts]
    /\ log' = tls_free_context(
                  uncache_session(TLScontext,
                      Append(Append(log, Ev("tls_bio_connect", NULL)),
                             Ev("tls_stream_start", NULL))))
    /\ stream' = "tls"
    /\ TLScontext' = NoContext
    /\ result' = "none"
    /\ UNCHANGED <<enforce_peername, peername, serverid, tls_client_cache,
                   session, lookup, restVars>>

\* tls_bio_connect() ends with a fatal engine error or a timeout: the cache
\* entry is removed, the connection state released, the call fails.
ConnectFailed(sts) ==
    /\ sts <= 0
    /\ pc' = "returned"
    /\ engine' = [engine EXCEPT !.connect = "failed", !.sts = sts]
    /\ log' = tls_free_context(
                  uncache_session(TLScontext,
                      Append(log, Ev("tls_bio_connect", NULL))))
    /\ TLScontext' = NoContext
    /\ result' = "none"
    /\ UNCHANGED <<enforce_peername, peername, serverid, tls_client_cache,
                   session, lookup, stream, restVars>>

\* tls_bio_connect() completes the handshake (the engine invoking the save
\* call-back for a newly negotiated session): the stream is switched to the
\* secure channel, the peer verified, and the connection state returned
\* unless a required name match is missing.
ConnectCompleted(sts, peercert, verify_result, reused, save) ==
    /\ sts > 0
    /\ reused => session # NULL
    /\ save # "none" =>
          client_ctx.new_session_cb = "new_client_session_cb" /\ ~reused
    /\ pc' = "returned"
    /\ LET l0 == Append(log, Ev("tls_bio_connect", NULL))
           l1 == IF save # "none"
                 THEN new_client_session_cb(
                          SSL_get_ex_data(TLScontext, engine.ex_data),
                          save, l0).log
                 ELSE l0
           l2 == Append(l1, Ev("tls_stream_start", NULL))
           ctx1 == [TLScontext EXCEPT !.session_reused = reused]
           v == verify_extract_peer(peername, peercert, ctx1, verify_result)
           ctx2 == IF peercert.present THEN v.ctx ELSE ctx1
       IN  /\ engine' =
                 [engine EXCEPT
                     !.connect = "completed", !.sts = sts,
                     !.peercert = peercert, !.verify_result = verify_result,
                     !.reused = reused, !.save = save,
                     !.verify_extract_peer = peercert.present,
                     !.verify_peername =
                         peercert.present /\ v.verify_peername,
                     !.dNSName_found =
                         IF peercert.present THEN v.dNSName_found ELSE 0,
                     !.cn_checked = peercert.present /\ v.cn_checked,
                     !.peer_verified = ctx2.peer_verified,
                     !.hostname_matched = ctx2.hostname_matched,
                     !.peer_CN = ctx2.peer_CN,
                     !.issuer_CN = ctx2.issuer_CN,
                     !.msg_info =
                         (IF peercert.present
                          THEN verify_extract_peer_info(
                                   var_smtp_tls_loglevel, v)
                          ELSE <<>>)
                         \o StartInfo(var_smtp_tls_loglevel,
                                      HostnameMismatch(enforce_peername,
                                                       ctx2)),
                     !.cb_ret =
                         IF save # "none"
                         THEN new_client_session_cb(
                                  SSL_get_ex_data(TLScontext, engine.ex_data),
                                  save, l0).ret
                         ELSE -1]
           /\ IF HostnameMismatch(enforce_peername, ctx2)
              THEN /\ log' = tls_client_stop(0, l2)
                   /\ TLScontext' = NoContext
                   /\ stream' = "plain"
                   /\ result' = "none"
              ELSE /\ log' = l2
                   /\ TLScontext' = [ctx2 EXCEPT !.protocol = "TLSv1",
                                                 !.cipher_name = "cipher"]
                   /\ stream' = "tls"
                   /\ result' = "TLScontext"
    /\ UNCHANGED <<enforce_peername, peername, serverid, tls_client_cache,
                   session, lookup, restVars>>

\* The caller has the return value; the next connection starts from scratch.
Return ==
    /\ pc = "returned"
    /\ pc' = "idle"
    /\ enforce_peername' = FALSE
    /\ peername' = EMPTY
    /\ serverid' = ""
    /\ TLScontext' = NoContext
    /\ session' = NULL
    /\ lookup' = "none"
    /\ engine' = NoEngine
    /\ stream' = "plain"
    /\ log' = <<>>
    /\ result' = "pending"
    /\ UNCHANGED <<tls_client_cache, restVars>>

\* no call of tls_client_start() is in progress
NoCall ==
    /\ enforce_peername = FALSE
    /\ peername = EMPTY
    /\ serverid = ""
    /\ TLScontext = NoContext
    /\ session = NULL
    /\ lookup = "none"
    /\ engine = NoEngine
    /\ stream = "plain"
    /\ log = <<>>
    /\ result = "pending"

StartIdle ==
    /\ pc = "idle"
    /\ NoCall

\* the connections of the concurrent model
Conns == 1..NumConns

\* the cache key the concurrent connections share, and their peername
SharedServerId == "smtp:mail.example.com:25"

SharedPeerName == MAIL_EXAMPLE_COM

\* a certificate whose only name is the dNSName n
CertFor(n) ==
    [present |-> TRUE,
     subjectAltName |-> [present |-> TRUE,
                         names |-> <<[type |-> "GEN_DNS", data |-> n]>>],
     subject_CN |-> NULL_STR, issuer_CN |-> <<"C","A">>]

\* what the server of the shared cache key presents: a certificate and the
\* trust result the engine computes for it
Servers ==
    {[peercert |-> CertFor(MAIL_EXAMPLE_COM), verify_result |-> "X509_V_OK"],
     [peercert |-> CertFor(WRONG_EXAMPLE_COM), verify_result |-> "X509_V_OK"],
     [peercert |-> CertFor(MAIL_EXAMPLE_COM), verify_result |-> "X509_V_ERR"]}

\* a connection of the concurrent model that is not in a call
IdleConn ==
    [pc |-> "idle", enforce |-> FALSE, session |-> 0, stale |-> FALSE,
     connect |-> "untried", reused |-> FALSE, peer_verified |-> FALSE,
     hostname_matched |-> FALSE, result |-> "pending"]

ConcOff ==
    /\ conn = [c \in Conns |-> IdleConn]
    /\ cache = 0
    /\ server = [peercert |-> NoPeerCert, verify_result |-> "X509_V_OK"]

\* the values of smtp_tls_loglevel that decide what this file logs about
\* verification: nothing optional, the summary, and more
LogLevels == {0, 1, 2}

\* smtp_tls_loglevel as it is unless the administrator raises it
QuietLog == var_smtp_tls_loglevel = 0

MatchOff ==
    /\ m_pc = "off"
    /\ m_pattern = EMPTY
    /\ m_hostname = EMPTY
    /\ m_result = FALSE

\* After tls_client_init(): client caching is on or off for the process.
Init ==
    /\ StartIdle
    /\ \E c \in BOOLEAN : InitDone(c)
    /\ MatchOff
    /\ ConcOff
    /\ QuietLog

\* Each step of the call, with every answer the collaborators may give.
StepCall ==
    /\ pc = "idle"
    /\ \E e \in BOOLEAN, pn \in PeerNames, sid \in ServerIds : Call(e, pn, sid)

StepSSLNew ==
    /\ pc = "SSL_new"
    /\ \E ok \in BOOLEAN : SSLNew(ok)

StepSetExData ==
    /\ pc = "SSL_set_ex_data"
    /\ \E ok \in BOOLEAN : SetExData(ok)

StepBioPair ==
    /\ pc = "BIO_new_bio_pair"
    /\ \E ok \in BOOLEAN : BioPair(ok)

StepLoadSession ==
    /\ pc = "load_clnt_session"
    /\ \E st \in LookupStatus, a \in BOOLEAN : LoadSession(st, a)

StepConnectFailed ==
    /\ pc = "tls_bio_connect"
    /\ \E sts \in ConnectStatus : ConnectFailed(sts)

StepConnectCompleted ==
    /\ pc = "tls_bio_connect"
    /\ \E sts \in ConnectStatus, c \in PeerCerts, vr \in VerifyResults,
          r \in BOOLEAN, sv \in SaveOutcomes :
          ConnectCompleted(sts, c, vr, r, sv)

Next ==
    \/ StepCall
    \/ StepSSLNew
    \/ StepSetExData
    \/ StepBioPair
    \/ StepLoadSession
    \/ StepConnectFailed
    \/ StepConnectCompleted
    \/ Return

Spec == Init /\ [][Next]_vars

\* the certificates of the servers of the concurrent model, and none
FewCerts == {NoPeerCert} \cup {s.peercert : s \in Servers}

StepConnectCompletedFew ==
    /\ pc = "tls_bio_connect"
    /\ \E sts \in ConnectStatus, c \in FewCerts, vr \in VerifyResults,
          r \in BOOLEAN, sv \in SaveOutcomes :
          ConnectCompleted(sts, c, vr, r, sv)

\* The steps of Spec, the handshake completing against a few certificates.
NextFair ==
    \/ StepCall
    \/ StepSSLNew
    \/ StepSetExData
    \/ StepBioPair
    \/ StepLoadSession
    \/ StepConnectFailed
    \/ StepConnectCompletedFew
    \/ Return

\* The call is sequential code and each of its library calls returns (the
\* handshake within its timeout): a step that can be taken is taken.
FairSpec == Init /\ [][NextFair]_vars /\ WF_vars(NextFair)

\* certificates that take verify_extract_peer() down each of its logging
\* paths: dNSNames that match or do not, a CommonName that matches or does
\* not, no name at all, and no certificate
LogCerts ==
    FewCerts \cup
    {[present |-> TRUE, subjectAltName |-> NoSubjectAltName,
      subject_CN |-> cn, issuer_CN |-> <<"C","A">>] :
         cn \in {NULL_STR, EMPTY, MAIL_EXAMPLE_COM, STAR_EXAMPLE_COM}}

StepConnectCompletedLog ==
    /\ pc = "tls_bio_connect"
    /\ \E sts \in ConnectStatus, c \in LogCerts, vr \in VerifyResults,
          r \in BOOLEAN, sv \in SaveOutcomes :
          ConnectCompleted(sts, c, vr, r, sv)

NextLog ==
    \/ StepCall
    \/ StepSSLNew
    \/ StepSetExData
    \/ StepBioPair
    \/ StepLoadSession
    \/ StepConnectFailed
    \/ StepConnectCompletedLog
    \/ Return

\* The process was started with any smtp_tls_loglevel.
InitLog ==
    /\ StartIdle
    /\ \E c \in BOOLEAN : InitDone(c)
    /\ MatchOff
    /\ ConcOff
    /\ var_smtp_tls_loglevel \in LogLevels

\* The connections of a process at every smtp_tls_loglevel.
SpecLog == InitLog /\ [][NextLog]_vars

(***************************************************************************)
(* tls_client_init() followed by the connections of the process.           *)
(***************************************************************************)
\* Process start: nothing is initialized, client caching is off.
InitBoot ==
    /\ pc = "off"
    /\ NoCall
    /\ tls_client_cache = FALSE
    /\ MatchOff
    /\ ConcOff
    /\ i_pc = "tls_ext_seed"
    /\ config \in Configs
    /\ init = NoInit
    /\ client_ctx = NoClientCtx
    /\ TLScontext_index = -1
    /\ QuietLog

StepInitSeed ==
    /\ i_pc = "tls_ext_seed"
    /\ \E r \in Status : InitSeed(r)

StepInitCtxNew ==
    /\ i_pc = "SSL_CTX_new"
    /\ \E ok \in BOOLEAN : InitCtxNew(ok)

StepInitCipherList ==
    /\ i_pc = "SSL_CTX_set_cipher_list"
    /\ \E ok \in BOOLEAN : InitCipherList(ok)

StepInitCAInfo ==
    /\ i_pc = "tls_set_ca_certificate_info"
    /\ \E r \in Status : InitCAInfo(r)

StepInitKeyInfo ==
    /\ i_pc = "tls_set_my_certificate_key_info"
    /\ \E r \in Status : InitKeyInfo(r)

StepInitPolicy ==
    /\ i_pc = "tls_mgr_policy"
    /\ \E st \in PolicyStatus, ct \in CacheTypes : InitPolicy(st, ct)

NextInit ==
    \/ StepInitSeed
    \/ StepInitCtxNew
    \/ StepInitCipherList
    \/ StepInitCAInfo
    \/ StepInitKeyInfo
    \/ StepInitPolicy
    \/ InitReturn
    \/ Next

SpecInit == InitBoot /\ [][NextInit]_vars

(***************************************************************************)
(* Several tls_client_start() calls at once, one per process, on the same  *)
(* cache key: the cache service answers one request at a time.  An entry   *)
(* of the cache is named after the connection that saved it, 0 is no       *)
(* entry.                                                                  *)
(***************************************************************************)
\* the connection state of a concurrent call
ConcContext(c) ==
    [tls_alloc_context EXCEPT
        !.serverid = SharedServerId,
        !.con = "SSL",
        !.enforce_verify_errors =
            EnforcementFlags(conn[c].enforce).enforce_verify_errors,
        !.enforce_CN = EnforcementFlags(conn[c].enforce).enforce_CN,
        !.session_reused = conn[c].reused]

\* Connection c enters tls_client_start() and, with client caching on, looks
\* the cache key up: the service answers from the entry it holds, or fails.
ConcLookup(c, enforce, status, activates) ==
    /\ status = "TLS_MGR_STAT_OK" => cache # 0
    /\ LET got == load_clnt_session(SharedServerId, status, activates, <<>>)
           primed == tls_client_cache /\ got.session # NULL
       IN  conn' = [conn EXCEPT ![c] =
                       [IdleConn EXCEPT !.pc = "tls_bio_connect",
                                        !.enforce = enforce,
                                        !.session =
                                            IF primed THEN cache ELSE 0]]
    /\ UNCHANGED <<cache, server, startVars, matchVars, initVars,
                   var_smtp_tls_loglevel>>

\* whether the session that primed a handshake is no longer the cache entry:
\* another connection has overwritten or deleted it since the lookup
Stale(primed) == primed # 0 /\ primed # cache

\* tls_bio_connect() of connection c returns: the handshake failed, or it
\* completed, resuming the session primed or negotiating a new one that the
\* save call-back hands to the cache service.
ConcConnect(c, sts, reused, save) ==
    /\ reused => conn[c].session # 0
    /\ save # "none" =>
          client_ctx.new_session_cb = "new_client_session_cb" /\ ~reused
    /\ IF sts <= 0
       THEN /\ conn' = [conn EXCEPT ![c].pc = "uncache_session",
                                    ![c].session = 0,
                                    ![c].stale = Stale(conn[c].session),
                                    ![c].connect = "failed"]
            /\ UNCHANGED cache
       ELSE /\ conn' = [conn EXCEPT ![c].pc = "verify_extract_peer",
                                    ![c].session = 0,
                                    ![c].stale = Stale(conn[c].session),
                                    ![c].connect = "completed",
                                    ![c].reused = reused]
            /\ LET l == IF save # "none"
                        THEN new_client_session_cb(ConcContext(c), save,
                                                   <<>>).log
                        ELSE <<>>
               IN  cache' = IF /\ Count(l, "tls_mgr_update") = 1
                               /\ save = "saved"
                            THEN c
                            ELSE cache
    /\ UNCHANGED <<server, startVars, matchVars, initVars,
                   var_smtp_tls_loglevel>>

\* Connection c, its handshake failed, removes the cache entry (the request
\* may not reach the service) and returns none.
ConcUncache(c, delivered) ==
    /\ LET l == uncache_session(ConcContext(c), <<>>)
       IN  cache' = IF Count(l, "tls_mgr_delete") = 1 /\ delivered
                    THEN 0
                    ELSE cache
    /\ conn' = [conn EXCEPT ![c].pc = "returned", ![c].result = "none"]
    /\ UNCHANGED <<server, startVars, matchVars, initVars,
                   var_smtp_tls_loglevel>>

\* mutant of ConcVerify: a resumed session is returned without verification
ConcVerify_resumed(c) ==
    /\ LET ctx1 == ConcContext(c)
           v == verify_extract_peer(SharedPeerName, server.peercert, ctx1,
                                    server.verify_result)
           ctx2 == IF server.peercert.present /\ ~conn[c].reused
                   THEN v.ctx
                   ELSE ctx1
       IN  conn' = [conn EXCEPT
                       ![c].pc = "returned",
                       ![c].peer_verified = ctx2.peer_verified,
                       ![c].hostname_matched = ctx2.hostname_matched,
                       ![c].result =
                           IF ~conn[c].reused /\
                              HostnameMismatch(conn[c].enforce, ctx2)
                           THEN "none"
                           ELSE "TLScontext"]
    /\ UNCHANGED <<cache, server, startVars, matchVars, initVars,
                   var_smtp_tls_loglevel>>

\* Connection c, its handshake completed, verifies the peer and returns.
ConcVerify(c) ==
    /\ LET ctx1 == ConcContext(c)
           v == verify_extract_peer(SharedPeerName, server.peercert, ctx1,
                                    server.verify_result)
           ctx2 == IF server.peercert.present THEN v.ctx ELSE ctx1
       IN  conn' = [conn EXCEPT
                       ![c].pc = "returned",
                       ![c].peer_verified = ctx2.peer_verified,
                       ![c].hostname_matched = ctx2.hostname_matched,
                       ![c].result =
                           IF HostnameMismatch(conn[c].enforce, ctx2)
                           THEN "none"
                           ELSE "TLScontext"]
    /\ UNCHANGED <<cache, server, startVars, matchVars, initVars,
                   var_smtp_tls_loglevel>>

\* The caller of connection c has the return value and may connect again.
ConcReturn(c) ==
    /\ conn' = [conn EXCEPT ![c] = IdleConn]
    /\ UNCHANGED <<cache, server, startVars, matchVars, initVars,
                   var_smtp_tls_loglevel>>

StepConcLookup ==
    \E c \in Conns :
        /\ conn[c].pc = "idle"
        /\ \E e \in BOOLEAN, st \in LookupStatus, a \in BOOLEAN :
              ConcLookup(c, e, st, a)

StepConcConnect ==
    \E c \in Conns :
        /\ conn[c].pc = "tls_bio_connect"
        /\ \E sts \in ConnectStatus, r \in BOOLEAN, sv \in SaveOutcomes :
              ConcConnect(c, sts, r, sv)

StepConcUncache ==
    \E c \in Conns :
        /\ conn[c].pc = "uncache_session"
        /\ \E d \in BOOLEAN : ConcUncache(c, d)

StepConcVerify ==
    \E c \in Conns :
        /\ conn[c].pc = "verify_extract_peer"
        /\ ConcVerify(c)

StepConcReturn ==
    \E c \in Conns :
        /\ conn[c].pc = "returned"
        /\ ConcReturn(c)

\* After tls_client_init(): the server of the shared cache key presents one
\* of the certificates, no connection is in a call, the cache has no entry.
InitConc ==
    /\ StartIdle
    /\ \E c \in BOOLEAN : InitDone(c)
    /\ MatchOff
    /\ conn = [c \in Conns |-> IdleConn]
    /\ cache = 0
    /\ server \in Servers
    /\ QuietLog

NextConc ==
    \/ StepConcLookup
    \/ StepConcConnect
    \/ StepConcUncache
    \/ StepConcVerify
    \/ StepConcReturn

SpecConc == InitConc /\ [][NextConc]_vars

(***************************************************************************)
(* uncache_session() on its own: every cache key, the null pointer         *)
(* included, after each course the call can have taken up to the failed    *)
(* handshake.                                                              *)
(***************************************************************************)
\* the cache keys, and the null pointer
UncacheKeys == {NULL} \cup ServerIds \cup {"smtp:example.com:25"}

\* the effects of a call up to the return of tls_bio_connect()
UncacheLogs ==
    {<<Ev("SSL_set_bio", NULL), Ev("tls_bio_connect", NULL)>>}
    \cup
    {<<Ev("tls_mgr_lookup", k), Ev("SSL_set_bio", NULL),
       Ev("tls_bio_connect", NULL)>> : k \in ServerIds}
    \cup
    {<<Ev("tls_mgr_lookup", k), Ev("SSL_set_session", NULL),
       Ev("SSL_set_bio", NULL), Ev("tls_bio_connect", NULL)>> :
        k \in ServerIds}

\* the connection state of a call up to the return of tls_bio_connect()
UncacheContexts ==
    {[tls_alloc_context EXCEPT
         !.serverid = k, !.con = "SSL",
         !.internal_bio = "BIO", !.network_bio = "BIO",
         !.rbio = "BIO", !.wbio = "BIO",
         !.enforce_verify_errors = EnforcementFlags(e).enforce_verify_errors,
         !.enforce_CN = EnforcementFlags(e).enforce_CN] :
        k \in UncacheKeys, e \in BOOLEAN}

UncacheCall ==
    /\ pc = "uncache_session"
    /\ pc' = "uncached"
    /\ log' = uncache_session(TLScontext, log)
    /\ UNCHANGED <<enforce_peername, peername, serverid, tls_client_cache,
                   TLScontext, session, lookup, engine, stream, result,
                   restVars>>

InitUncache ==
    /\ pc = "uncache_session"
    /\ enforce_peername = FALSE
    /\ peername = EMPTY
    /\ serverid = ""
    /\ TLScontext \in UncacheContexts
    /\ session = NULL
    /\ lookup = "none"
    /\ engine = NoEngine
    /\ stream = "plain"
    /\ log \in UncacheLogs
    /\ result = "pending"
    /\ \E c \in BOOLEAN : InitDone(c)
    /\ MatchOff
    /\ ConcOff
    /\ QuietLog

NextUncache == UncacheCall

SpecUncache == InitUncache /\ [][NextUncache]_vars

(***************************************************************************)
(* match_hostname() on its own: every pattern and hostname of the bounded  *)
(* input set.                                                              *)
(***************************************************************************)
MatchCall ==
    /\ m_pc = "call"
    /\ m_pc' = "done"
    /\ m_result' = match_hostname(m_pattern, m_hostname)
    /\ UNCHANGED <<m_pattern, m_hostname, startVars, initVars,
                   concVars,
                   var_smtp_tls_loglevel>>

InitMatch ==
    /\ StartIdle
    /\ InitDone(FALSE)
    /\ ConcOff
    /\ m_pc = "call"
    /\ m_pattern \in MatchInputs
    /\ m_hostname \in MatchInputs
    /\ m_result = FALSE
    /\ QuietLog

NextMatch == MatchCall

SpecMatch == InitMatch /\ [][NextMatch]_vars

(***************************************************************************)
(* Properties.                                                             *)
(***************************************************************************)
Returned == pc = "returned"

Established == Returned /\ result = "TLScontext"

Failed == Returned /\ result = "none"

Completed == engine.connect = "completed"

X509_V_OK == "X509_V_OK"

\* the dNSName entries of a certificate, in order
RECURSIVE DNSNames(_)
DNSNames(names) ==
    IF names = <<>> THEN <<>>
    ELSE IF Head(names).type = "GEN_DNS"
         THEN <<Head(names).data>> \o DNSNames(Tail(names))
         ELSE DNSNames(Tail(names))

CertDNSNames(cert) == DNSNames(cert.subjectAltName.names)

\* the subject CommonName as the verifier holds it: the empty string when
\* none could be extracted
CertCN(cert) == IF cert.subject_CN = NULL_STR THEN EMPTY ELSE cert.subject_CN

SomeDNSNameMatches(cert, pn) ==
    \E i \in 1..Len(CertDNSNames(cert)) :
        match_hostname(CertDNSNames(cert)[i], pn)

\* C1: with enforce_peername set, a connection state is returned only with
\* peer_verified and hostname_matched both true; a completed handshake whose
\* peer sent no certificate, whose trust chain did not verify, or in which
\* the verifier found no match (in particular when neither a dNSName nor the
\* CommonName matches), returns none.
C1_EnforcedNeedsVerifiedMatch ==
    (Returned /\ enforce_peername) =>
        /\ result = "TLScontext" =>
              /\ TLScontext.peer_verified
              /\ TLScontext.hostname_matched
              /\ engine.peercert.present
              /\ engine.verify_result = X509_V_OK
        /\ ( /\ Completed
             /\ \/ ~engine.peercert.present
                \/ engine.verify_result # X509_V_OK
                \/ ~engine.hostname_matched
                \/ /\ ~SomeDNSNameMatches(engine.peercert, peername)
                   /\ ~match_hostname(CertCN(engine.peercert), peername) )
           => result = "none"

\* C1 witness: Scenario A, enforcement on, the dNSName is the peername.
C1_Witness ==
    /\ Established /\ enforce_peername
    /\ peername = MAIL_EXAMPLE_COM
    /\ CertDNSNames(engine.peercert) = <<MAIL_EXAMPLE_COM>>
    /\ TLScontext.peer_verified /\ TLScontext.hostname_matched

\* C2: when verify_extract_peer runs on a certificate with at least one
\* dNSName, the CommonName is not matched against the peername; if names are
\* checked and no dNSName matches, every dNSName was counted and
\* hostname_matched is false whatever the CommonName is.
C2_SanPrecedence ==
    ( /\ Returned /\ engine.verify_extract_peer
      /\ Len(CertDNSNames(engine.peercert)) > 0 ) =>
        /\ ~engine.cn_checked
        /\ ~SomeDNSNameMatches(engine.peercert, peername) =>
              /\ ~engine.hostname_matched
              /\ engine.verify_peername =>
                    engine.dNSName_found = Len(CertDNSNames(engine.peercert))

\* C2 witness: Scenario B, the only dNSName is wrong and the CommonName is
\* the peername.
C2_Witness ==
    /\ Failed /\ enforce_peername /\ engine.verify_peername
    /\ peername = MAIL_EXAMPLE_COM
    /\ CertDNSNames(engine.peercert) = <<WRONG_EXAMPLE_COM>>
    /\ engine.peercert.subject_CN = MAIL_EXAMPLE_COM
    /\ engine.dNSName_found = 1
    /\ ~engine.hostname_matched

EqualIgnoringCase(s, t) ==
    /\ Len(s) = Len(t)
    /\ \A i \in 1..Len(s) : tolower(s[i]) = tolower(t[i])

\* the rule of the specification: equal ignoring case, or the pattern is "*."
\* and a non-empty remainder, the hostname has a '.', and the text after the
\* hostname's first '.' equals the remainder ignoring case
MatchRule(pattern, hostname) ==
    \/ EqualIgnoringCase(pattern, hostname)
    \/ /\ Len(pattern) > 2
       /\ SubSeq(pattern, 1, 2) = <<"*", ".">>
       /\ \E i \in 1..Len(hostname) :
             /\ hostname[i] = "."
             /\ \A j \in 1..(i - 1) : hostname[j] # "."
             /\ EqualIgnoringCase(SubSeq(hostname, i + 1, Len(hostname)),
                                  SubSeq(pattern, 3, Len(pattern)))

\* C3: match_hostname(pattern, hostname) is true exactly when the rule of the
\* specification holds, and gives the four results the specification lists.
C3_MatchHostname ==
    m_pc = "done" =>
        /\ m_result = MatchRule(m_pattern, m_hostname)
        /\ (m_pattern = EXAMPLE_COM /\ m_hostname = EXAMPLE_COM) => m_result
        /\ (m_pattern = STAR_EXAMPLE_COM /\ m_hostname = MAIL_EXAMPLE_COM)
              => m_result
        /\ (m_pattern = STAR_EXAMPLE_COM /\ m_hostname = EXAMPLE_COM)
              => ~m_result
        /\ (m_pattern = STAR_EXAMPLE_COM /\ m_hostname = A_B_EXAMPLE_COM)
              => ~m_result

\* C3 witness: the wild-card pattern has matched a hostname.
C3_Witness ==
    /\ m_pc = "done"
    /\ m_pattern = STAR_EXAMPLE_COM
    /\ m_hostname = MAIL_EXAMPLE_COM
    /\ m_result

NamesChecked ==
    /\ Returned /\ engine.verify_extract_peer /\ engine.verify_peername

\* C4 as stated: when names are checked and the certificate has no dNSName,
\* hostname_matched equals match(CommonName, peername) for every CommonName
\* and peername.
C4_Original ==
    (NamesChecked /\ Len(CertDNSNames(engine.peercert)) = 0) =>
        engine.hostname_matched
            = match_hostname(CertCN(engine.peercert), peername)

\* C4 as amended: when names are checked and the certificate has no dNSName,
\* hostname_matched equals match(CommonName, peername) if the CommonName is
\* not empty, and is false if it is empty or could not be extracted.
C4_CommonNameFallback ==
    (NamesChecked /\ Len(CertDNSNames(engine.peercert)) = 0) =>
        /\ engine.dNSName_found = 0
        /\ engine.cn_checked = (CertCN(engine.peercert) # EMPTY)
        /\ engine.hostname_matched
              = ( /\ CertCN(engine.peercert) # EMPTY
                  /\ match_hostname(CertCN(engine.peercert), peername) )

\* C4 witness: Scenario C, no subjectAltName, a wild-card CommonName.
C4_Witness ==
    /\ Established /\ enforce_peername /\ engine.cn_checked
    /\ ~engine.peercert.subjectAltName.present
    /\ engine.peercert.subject_CN = STAR_EXAMPLE_COM
    /\ peername = MAIL_EXAMPLE_COM
    /\ TLScontext.hostname_matched

RECURSIVE Requests(_, _)
Requests(l, op) ==
    IF l = <<>> THEN <<>>
    ELSE IF Head(l).op = op
         THEN <<Head(l).id>> \o Requests(Tail(l), op)
         ELSE Requests(Tail(l), op)

\* C6: a lookup that ends in a miss, an unreachable or failing service, or
\* data that cannot be activated gives no session, and the call goes on to a
\* handshake that does not resume; a call returns none only when an engine
\* step failed or a required name match is missing, whatever the cache
\* answered to the lookup, the save and the delete.
C6_CacheNeverFailsCall ==
    /\ lookup \in {"miss", "unreachable", "corrupt"} =>
          /\ session = NULL
          /\ Count(log, "SSL_set_session") = 0
          /\ ~engine.reused
          /\ Returned => Count(log, "tls_bio_connect") = 1
    /\ Failed =>
          \/ engine.ssl_new = "failed"
          \/ engine.ex_data = "failed"
          \/ engine.bio_pair = "failed"
          \/ engine.connect = "failed"
          \/ Completed /\ enforce_peername /\ ~engine.hostname_matched

\* C6 witness: the cached data could not be activated, the update of the
\* cache failed, and the connection is established.
C6_Witness ==
    /\ Established
    /\ lookup = "corrupt"
    /\ engine.save = "update_failed"
    /\ Requests(log, "tls_mgr_lookup") = <<serverid>>

HostnameMismatchFailure ==
    Failed /\ Completed /\ enforce_peername /\ ~engine.hostname_matched

\* C7: a call whose handshake completes and which fails on a missing name
\* match under enforcement issues exactly one delete of its cache key.
C7_MismatchDeletesOnce ==
    HostnameMismatchFailure =>
        Requests(log, "tls_mgr_delete") = <<serverid>>

\* C8: a call that fails on a missing name match under enforcement sends no
\* close notification before the connection state is released.
C8_MismatchNoCloseNotify ==
    HostnameMismatchFailure => Count(log, "tls_bio_shutdown") = 0

\* C9: when a cached session was handed to the engine and the handshake then
\* fails, exactly one delete of the cache key is issued, before the one
\* release of the connection state, and the call returns none.
C9_PrimedFailureDeletesOnce ==
    (Returned /\ session # NULL /\ engine.connect = "failed") =>
        /\ Requests(log, "tls_mgr_delete") = <<serverid>>
        /\ Count(log, "tls_free_context") = 1
        /\ First(log, "tls_mgr_delete") < First(log, "tls_free_context")
        /\ First(log, "tls_bio_connect") < First(log, "tls_mgr_delete")
        /\ result = "none"
        /\ ~TLScontext.allocated

\* C9 witness: a primed handshake that timed out.
C9_Witness ==
    /\ Failed /\ session # NULL /\ lookup = "hit"
    /\ engine.connect = "failed" /\ engine.sts = 0
    /\ Count(log, "SSL_set_session") = 1

\* C10: while the call runs nothing is released; a call that returns none
\* has released the connection state exactly once, on each failing path; a
\* connection state is returned unreleased and only with the engine session
\* created and attached, the buffer pair created and bound, the handshake
\* completed and the name policy satisfied.
C10_ReleasedOnceOrReturnedWhole ==
    /\ ~Returned =>
          /\ result = "pending"
          /\ Count(log, "tls_free_context") = 0
    /\ Returned => result \in {"none", "TLScontext"}
    /\ Failed =>
          /\ Count(log, "tls_free_context") = 1
          /\ ~TLScontext.allocated
    /\ Established =>
          /\ Count(log, "tls_free_context") = 0
          /\ TLScontext.allocated
          /\ engine.ssl_new = "ok" /\ TLScontext.con # NULL
          /\ engine.ex_data = "ok"
          /\ engine.bio_pair = "ok" /\ TLScontext.network_bio # NULL
          /\ TLScontext.internal_bio # NULL
          /\ TLScontext.rbio = TLScontext.internal_bio
          /\ TLScontext.wbio = TLScontext.internal_bio
          /\ Completed /\ engine.sts > 0
          /\ enforce_peername => TLScontext.hostname_matched

\* C10 witness: the buffer pair could not be created and the call returned
\* none with the connection state released.
C10_Witness ==
    /\ Failed
    /\ engine.bio_pair = "failed"
    /\ Count(log, "tls_free_context") = 1

\* C11: peer_CN and issuer_CN are null until the verifier runs and null for
\* good when it does not run; the one step that runs the verifier stores in
\* each the name extracted from the certificate, or the empty string when
\* none can be extracted, so neither is null afterwards; no other step gives
\* them a value.
C11_NamesSetOnceNeverNull ==
    /\ [](/\ TLScontext.allocated /\ ~engine.verify_extract_peer =>
                /\ TLScontext.peer_CN = NULL_STR
                /\ TLScontext.issuer_CN = NULL_STR
          /\ engine.verify_extract_peer =>
                /\ engine.peer_CN # NULL_STR /\ engine.issuer_CN # NULL_STR
                /\ engine.peer_CN = CertCN(engine.peercert)
                /\ engine.issuer_CN =
                      (IF engine.peercert.issuer_CN = NULL_STR
                       THEN EMPTY
                       ELSE engine.peercert.issuer_CN)
          /\ Established =>
                /\ TLScontext.peer_CN = engine.peer_CN
                /\ TLScontext.issuer_CN = engine.issuer_CN)
    /\ [][(\/ TLScontext'.peer_CN # TLScontext.peer_CN
           \/ TLScontext'.issuer_CN # TLScontext.issuer_CN) =>
             \/ /\ pc = "tls_bio_connect" /\ Established'
                /\ ~engine.verify_extract_peer /\ engine'.verify_extract_peer
                /\ TLScontext.peer_CN = NULL_STR
                /\ TLScontext.issuer_CN = NULL_STR
             \/ ~TLScontext'.allocated]_vars

\* C11 witness: the verifier ran on a certificate with neither a subject nor
\* an issuer CommonName, and the connection state returned holds two empty
\* strings.
C11_Witness ==
    /\ Established /\ engine.verify_extract_peer
    /\ engine.peercert.subject_CN = NULL_STR
    /\ engine.peercert.issuer_CN = NULL_STR
    /\ TLScontext.peer_CN = EMPTY /\ TLScontext.issuer_CN = EMPTY

InitReturned == i_pc = "returned"

\* the SSL_CTX objects created and not released
CtxHeld(l) == Count(l, "SSL_CTX_new") - Count(l, "SSL_CTX_free")

\* C12: tls_client_init returns none, with no SSL_CTX left allocated, exactly
\* when the entropy seeding fails, the SSL_CTX cannot be created, a
\* configured cipher list is rejected, the trust anchors fail to load, or the
\* configured own certificate and key fail to load or do not match; in every
\* other case it returns the SSL_CTX, one and unreleased: also when no own
\* certificate or key is configured, and when the cache policy query fails.
C12_InitFailsOrReturnsHandle ==
    InitReturned =>
        /\ init.result \in {"none", "client_ctx"}
        /\ init.result = "none" <=>
              \/ init.seed = "failed"
              \/ init.ctx_new = "failed"
              \/ config.cipherlist /\ init.cipher = "failed"
              \/ init.ca = "failed"
              \/ /\ \/ config.cert_file \/ config.key_file
                    \/ config.dcert_file \/ config.dkey_file
                 /\ init.key = "failed"
        /\ init.result = "none" =>
              /\ ~client_ctx.allocated
              /\ CtxHeld(init.log) = 0
        /\ init.result = "client_ctx" =>
              /\ client_ctx.allocated
              /\ CtxHeld(init.log) = 1
              /\ init.seed = "ok" /\ init.ctx_new = "ok" /\ init.ca = "ok"
              /\ config.cipherlist => init.cipher = "ok"
              /\ OwnCertConfigured(config) => init.key = "ok"
              /\ init.policy \in {"ok", "failed"}
        /\ ~config.cipherlist => init.cipher = "untried"
        /\ (~config.cert_file /\ ~config.key_file /\ ~config.dcert_file
               /\ ~config.dkey_file) => init.key = "untried"

\* C12 witness: the own certificate and key, configured, do not load, and the
\* call returned none with the SSL_CTX released.
C12_Witness ==
    /\ InitReturned /\ init.result = "none"
    /\ config.cert_file /\ config.key_file /\ init.key = "failed"
    /\ Count(init.log, "SSL_CTX_new") = 1
    /\ Count(init.log, "SSL_CTX_free") = 1

\* the cache policy query failed and the SSL_CTX was returned all the same
C12_PolicyFailedWitness ==
    /\ InitReturned /\ init.result = "client_ctx"
    /\ init.policy = "failed" /\ init.key = "untried"

\* what the trust result and the certificate alone make of peer_verified
TrustOf(cert, verify_result) == cert.present /\ verify_result = X509_V_OK

\* what the policy, the peername, the trust result and the certificate alone
\* make of hostname_matched
MatchOf(enforce, pn, cert, verify_result) ==
    /\ enforce /\ TrustOf(cert, verify_result)
    /\ IF CertDNSNames(cert) # <<>>
       THEN SomeDNSNameMatches(cert, pn)
       ELSE CertCN(cert) # EMPTY /\ match_hostname(CertCN(cert), pn)

\* C13: after a completed handshake the verifier has run exactly when a
\* certificate was presented, and peer_verified, hostname_matched and the
\* return value are functions of enforce_peername, the peername, the trust
\* result and the certificate alone: a call that primed and resumed a cached
\* session and one that did not end alike.
C13_ResumptionVerifiedAlike ==
    (Returned /\ Completed) =>
        /\ engine.verify_extract_peer = engine.peercert.present
        /\ engine.peer_verified =
              TrustOf(engine.peercert, engine.verify_result)
        /\ engine.hostname_matched =
              MatchOf(enforce_peername, peername, engine.peercert,
                      engine.verify_result)
        /\ result =
              IF enforce_peername /\
                 ~MatchOf(enforce_peername, peername, engine.peercert,
                          engine.verify_result)
              THEN "none"
              ELSE "TLScontext"
        /\ Established => TLScontext.session_reused = engine.reused

\* C13 witness: a cached session was primed and resumed, the verifier ran on
\* the certificate of the session, found no name match, and the call failed.
C13_Witness ==
    /\ Failed /\ Completed
    /\ session # NULL /\ engine.reused
    /\ Count(log, "SSL_set_session") = 1
    /\ engine.verify_extract_peer /\ engine.peer_verified
    /\ ~engine.hostname_matched

ConcReturned(c) == conn[c].pc = "returned"

C15_StreamRedirectedIffEstablished ==
    /\ stream = "tls" <=> Established
    /\ ~Returned => Count(log, "tls_stream_start") = 0
    /\ Established =>
          /\ Count(log, "tls_stream_start") = 1
          /\ Count(log, "tls_stream_stop") = 0
          /\ First(log, "tls_bio_connect") < First(log, "tls_stream_start")
          /\ Completed /\ engine.sts > 0
    /\ Failed =>
          /\ stream = "plain"
          /\ Count(log, "tls_stream_start") = Count(log, "tls_stream_stop")
          /\ ~Completed => Count(log, "tls_stream_start") = 0
          /\ Completed =>
                /\ Count(log, "tls_stream_start") = 1
                /\ First(log, "tls_stream_start")
                      < First(log, "tls_stream_stop")

\* C15 witness: the name policy failed the call after the switch and the
\* stream is back on the caller's path.
C15_Witness ==
    /\ Failed /\ Completed /\ stream = "plain"
    /\ Count(log, "tls_stream_start") = 1
    /\ Count(log, "tls_stream_stop") = 1

InCall == pc \notin {"idle", "returned"}

\* C16: a call that has been entered returns, with a connection state or
\* with none; tls_bio_connect() is called at most once per call and the step
\* after it is the return; a call whose handshake ended in an error or a
\* timeout has returned none with the connection state released once, the
\* stream on the caller's path and nothing of the attempt left.
C16_ReturnsWithoutRetry ==
    /\ InCall ~> Returned
    /\ [](/\ Count(log, "tls_bio_connect") <= 1
          /\ Returned => result \in {"none", "TLScontext"}
          /\ engine.connect = "failed" =>
                /\ Failed /\ engine.sts <= 0
                /\ Count(log, "tls_bio_connect") = 1
                /\ Count(log, "tls_free_context") = 1
                /\ ~TLScontext.allocated
                /\ TLScontext = NoContext
                /\ stream = "plain")
    /\ [][pc = "tls_bio_connect" => pc' = "returned"]_vars

\* C16 witness: the handshake timed out and the call has returned none.
C16_Witness ==
    /\ Failed /\ engine.connect = "failed" /\ engine.sts = 0
    /\ Count(log, "tls_bio_connect") = 1
    /\ ~TLScontext.allocated

HookRegistered == client_ctx.new_session_cb = "new_client_session_cb"

ExternalCacheMode == client_ctx.session_cache_mode = "SSL_SESS_CACHE_CLIENT"

\* C17: tls_client_init leaves tls_client_cache set exactly when the policy
\* query succeeded and reported the client cache, and nothing changes it
\* afterwards; the save call-back is registered and the cache mode switched
\* exactly when it is set; a call of tls_client_start issues its one lookup
\* exactly when it is set, and with it clear no connection issues a lookup
\* or an update and the save call-back is never invoked.
C17_CachingActiveIffPolicy ==
    /\ [](/\ (InitReturned /\ init.result = "client_ctx") =>
                (tls_client_cache <=>
                    /\ init.policy = "ok"
                    /\ "TLS_MGR_SCACHE_CLIENT" \in init.cache_types)
          /\ (InitReturned /\ init.result = "none") => ~tls_client_cache
          /\ i_pc \notin {"returned", "done"} => ~tls_client_cache
          /\ HookRegistered <=> tls_client_cache
          /\ ExternalCacheMode <=> tls_client_cache
          /\ Count(log, "tls_mgr_lookup") =
                (IF tls_client_cache /\ engine.bio_pair = "ok"
                       /\ pc # "load_clnt_session"
                 THEN 1
                 ELSE 0)
          /\ lookup # "none" <=> Count(log, "tls_mgr_lookup") = 1
          /\ ~tls_client_cache =>
                /\ Count(log, "tls_mgr_lookup") = 0
                /\ Count(log, "tls_mgr_update") = 0
                /\ engine.save = "none"
                /\ session = NULL)
    /\ [][(i_pc \in {"returned", "done"}) =>
             (tls_client_cache' = tls_client_cache /\
              client_ctx' = client_ctx)]_vars

\* C17 witness: caching is on after tls_client_init and a connection has
\* looked its cache key up and saved the session it negotiated.
C17_Witness ==
    /\ i_pc = "done" /\ tls_client_cache /\ HookRegistered
    /\ Established
    /\ Count(log, "tls_mgr_lookup") = 1
    /\ Count(log, "tls_mgr_update") = 1

\* the policy query succeeded without the client cache: no lookup is made
C17_OffWitness ==
    /\ i_pc = "done" /\ ~tls_client_cache /\ ~HookRegistered
    /\ Established /\ Count(log, "tls_mgr_lookup") = 0

\* C18: an invocation of new_client_session_cb, however it ends, releases
\* the session once, after the update if there is one, and returns 1; the
\* update, for the cache key of the connection, is sent exactly when
\* tls_session_passivate() produced data; without an invocation there is
\* neither.
C18_SaveHookReleasesOnce ==
    /\ engine.save # "none" =>
          /\ engine.cb_ret = 1
          /\ Count(log, "SSL_SESSION_free") = 1
          /\ Count(log, "tls_mgr_update") =
                (IF engine.save = "passivate_failed" THEN 0 ELSE 1)
          /\ Requests(log, "tls_mgr_update") =
                (IF engine.save = "passivate_failed"
                 THEN <<>>
                 ELSE <<serverid>>)
          /\ engine.save # "passivate_failed" =>
                First(log, "tls_mgr_update") < First(log, "SSL_SESSION_free")
    /\ engine.save = "none" =>
          /\ engine.cb_ret = -1
          /\ Count(log, "SSL_SESSION_free") = 0
          /\ Count(log, "tls_mgr_update") = 0

\* C18 witness: tls_session_passivate() failed, no update was sent, and the
\* session was released all the same.
C18_Witness ==
    /\ Returned /\ engine.save = "passivate_failed"
    /\ engine.cb_ret = 1
    /\ Count(log, "SSL_SESSION_free") = 1
    /\ Count(log, "tls_mgr_update") = 0

Uncached == pc = "uncached"

\* C19 as claimed: a delete is issued only by a call that had primed its
\* handshake with a cached session.
C19_DeleteOnlyWhenPrimed ==
    Count(log, "tls_mgr_delete") > 0 =>
        /\ session # NULL
        /\ Count(log, "SSL_set_session") = 1

\* C20 as claimed: uncache_session leaves the effects as they were, no
\* delete request added, when the cache key is the empty string or the null
\* pointer.
C20_Original ==
    (Uncached /\ TLScontext.serverid \in {NULL, ""}) =>
        /\ log \in UncacheLogs
        /\ Count(log, "tls_mgr_delete") = 0

\* C20: uncache_session leaves the effects as they were exactly when the
\* cache key is the null pointer; for every other key, the empty string
\* included, it adds one delete request for that key.
C20_NoOpForNullKey ==
    Uncached =>
        /\ TLScontext.serverid = NULL =>
              /\ log \in UncacheLogs
              /\ Count(log, "tls_mgr_delete") = 0
        /\ TLScontext.serverid # NULL =>
              /\ Count(log, "tls_mgr_delete") = 1
              /\ log[Len(log)] = Ev("tls_mgr_delete", TLScontext.serverid)
              /\ SubSeq(log, 1, Len(log) - 1) \in UncacheLogs

\* C20 witness: uncache_session was called with a null cache key and no
\* delete request was made.
C20_Witness ==
    /\ Uncached /\ TLScontext.serverid = NULL
    /\ Count(log, "tls_mgr_delete") = 0
    /\ Count(log, "tls_bio_connect") = 1

\* the steps of a call in the order of the code
PcOrder ==
    {<<"idle", "SSL_new">>, <<"SSL_new", "SSL_set_ex_data">>,
     <<"SSL_set_ex_data", "BIO_new_bio_pair">>,
     <<"BIO_new_bio_pair", "load_clnt_session">>,
     <<"load_clnt_session", "tls_bio_connect">>,
     <<"SSL_new", "returned">>, <<"SSL_set_ex_data", "returned">>,
     <<"BIO_new_bio_pair", "returned">>, <<"tls_bio_connect", "returned">>,
     <<"returned", "idle">>}

\* what C21 says besides the place of the binding: one lookup at most, made
\* with the connection state allocated and the buffer pair created, before
\* the handshake; none when an allocation or the buffer pair failed
LookupPlaced ==
    /\ Count(log, "tls_mgr_lookup") <= 1
    /\ Count(log, "tls_mgr_lookup") = 1 =>
          /\ engine.ssl_new = "ok" /\ engine.ex_data = "ok"
          /\ engine.bio_pair = "ok"
    /\ (\/ engine.ssl_new = "failed" \/ engine.ex_data = "failed"
        \/ engine.bio_pair = "failed") =>
          /\ Count(log, "tls_mgr_lookup") = 0
          /\ Count(log, "tls_bio_connect") = 0
    /\ (Count(log, "tls_mgr_lookup") = 1 /\ Count(log, "tls_bio_connect") = 1)
          => First(log, "tls_mgr_lookup") < First(log, "tls_bio_connect")
    /\ pc \in {"idle", "SSL_new", "SSL_set_ex_data", "BIO_new_bio_pair",
               "load_clnt_session"} =>
          /\ Count(log, "tls_mgr_lookup") = 0
          /\ Count(log, "tls_bio_connect") = 0
    /\ pc = "load_clnt_session" =>
          /\ TLScontext.internal_bio # NULL /\ TLScontext.network_bio # NULL
    /\ Count(log, "tls_bio_connect") = 1 =>
          /\ Count(log, "SSL_set_bio") = 1
          /\ First(log, "SSL_set_bio") < First(log, "tls_bio_connect")

\* C21 as claimed: the engine session is bound to the engine-facing end of
\* the buffer pair before the lookup is issued.
C21_Original ==
    /\ LookupPlaced
    /\ Count(log, "tls_mgr_lookup") = 1 =>
          /\ Count(log, "SSL_set_bio") = 1
          /\ First(log, "SSL_set_bio") < First(log, "tls_mgr_lookup")

\* C21: a call takes its steps in the order allocation, buffer pair, lookup,
\* binding, handshake: the buffer pair is created before the lookup, the
\* lookup is made at most once and before the handshake, the engine session
\* is bound to the engine-facing end for read and write after the lookup
\* (and after a session found is handed to the engine) and before the
\* handshake, and no lookup is made when an allocation or the buffer pair
\* failed.
C21_StepsInOrder ==
    /\ [](/\ LookupPlaced
          /\ pc = "load_clnt_session" =>
                /\ TLScontext.rbio = NULL /\ TLScontext.wbio = NULL
                /\ Count(log, "SSL_set_bio") = 0
          /\ Count(log, "SSL_set_bio") = 1 =>
                /\ Count(log, "tls_mgr_lookup") = 1 =>
                      First(log, "tls_mgr_lookup") < First(log, "SSL_set_bio")
                /\ Count(log, "SSL_set_session") = 1 =>
                      First(log, "SSL_set_session")
                          < First(log, "SSL_set_bio")
          /\ pc = "tls_bio_connect" =>
                /\ TLScontext.rbio = TLScontext.internal_bio
                /\ TLScontext.wbio = TLScontext.internal_bio
                /\ TLScontext.internal_bio # NULL)
    /\ [][pc' # pc => <<pc, pc'>> \in PcOrder]_vars

\* C21 witness: a call that looked its key up, found a session, bound the
\* engine session and is about to start the handshake.
C21_Witness ==
    /\ pc = "tls_bio_connect" /\ lookup = "hit"
    /\ log = <<Ev("tls_mgr_lookup", serverid), Ev("SSL_set_session", NULL),
               Ev("SSL_set_bio", NULL)>>

\* a pattern "*.X" with X not empty, and its X
IsWildcard(pattern) ==
    Len(pattern) > 2 /\ SubSeq(pattern, 1, 2) = <<"*", ".">>

WildcardRest(pattern) == SubSeq(pattern, 3, Len(pattern))

\* hostname is L.X ignoring case, for a label L without a dot that has at
\* least minLabel characters
LabelThenRest(hostname, rest, minLabel) ==
    \E i \in 1..Len(hostname) :
        /\ i > minLabel
        /\ hostname[i] = "."
        /\ \A j \in 1..(i - 1) : hostname[j] # "."
        /\ EqualIgnoringCase(SubSeq(hostname, i + 1, Len(hostname)), rest)

MatchDone == m_pc = "done"

\* C22 as claimed: "*.X" matches only a hostname L.X with L a non-empty
\* label without a dot, never a hostname that starts with '.', and never
\* the hostname X.
C22_Original ==
    (MatchDone /\ IsWildcard(m_pattern)) =>
        /\ m_result => LabelThenRest(m_hostname, WildcardRest(m_pattern), 1)
        /\ (m_hostname # EMPTY /\ m_hostname[1] = ".") => ~m_result
        /\ EqualIgnoringCase(m_hostname, WildcardRest(m_pattern)) => ~m_result

\* C22: "*.X" matches exactly the hostnames L.X (ignoring case) with L a
\* label without a dot, the empty label included: a hostname that starts
\* with '.' is matched when what follows the '.' is X; the hostname X is
\* never matched.
C22_WildcardOneLabel ==
    (MatchDone /\ IsWildcard(m_pattern)) =>
        /\ m_result <=>
              LabelThenRest(m_hostname, WildcardRest(m_pattern), 0)
        /\ (m_hostname # EMPTY /\ m_hostname[1] = ".") =>
              (m_result <=>
                  EqualIgnoringCase(Tail(m_hostname),
                                    WildcardRest(m_pattern)))
        /\ EqualIgnoringCase(m_hostname, WildcardRest(m_pattern)) => ~m_result

\* C22 witness: "*.a" against "b.A", a label of one character matched.
C22_Witness ==
    /\ MatchDone /\ m_result
    /\ m_pattern = <<"*", ".", "a">>
    /\ m_hostname = <<"b", ".", "A">>

\* "*.a" against ".a": the empty label is matched
C22_EmptyLabelWitness ==
    /\ MatchDone /\ m_result
    /\ m_pattern = <<"*", ".", "a">>
    /\ m_hostname = <<".", "a">>

CacheOps == {"tls_mgr_lookup", "tls_mgr_update", "tls_mgr_delete"}

\* C23: every lookup, update and delete of a call names the serverid the
\* caller passed, which is the one stored in the connection state; the
\* connection state is attached to the engine session before the buffer
\* pair, the lookup and the handshake, so the save call-back, which runs only
\* in the handshake, finds it and saves under that serverid.
C23_OneKeyPerConnection ==
    /\ \A i \in 1..Len(log) :
          log[i].op \in CacheOps => log[i].id = serverid
    /\ TLScontext.allocated => TLScontext.serverid = serverid
    /\ pc \in {"BIO_new_bio_pair", "load_clnt_session", "tls_bio_connect"} =>
          /\ engine.ex_data = "ok"
          /\ TLScontext.allocated /\ TLScontext.con # NULL
    /\ Count(log, "tls_bio_connect") = 1 => engine.ex_data = "ok"
    /\ engine.save # "none" =>
          /\ engine.ex_data = "ok"
          /\ Completed
          /\ First(log, "tls_bio_connect") < First(log, "SSL_SESSION_free")
          /\ engine.save # "passivate_failed" =>
                Requests(log, "tls_mgr_update") = <<serverid>>
    /\ engine.ex_data # "ok" =>
          /\ Count(log, "tls_mgr_update") = 0
          /\ Count(log, "SSL_SESSION_free") = 0

\* C23 witness: a call looked up and saved under the serverid of its caller.
C23_Witness ==
    /\ Established /\ serverid = "smtp:mail.example.com:25"
    /\ Requests(log, "tls_mgr_lookup") = <<serverid>>
    /\ Requests(log, "tls_mgr_update") = <<serverid>>
    /\ TLScontext.serverid = serverid

\* the summaries among the messages of a call
Summaries(msgs) ==
    SelectSeq(msgs, LAMBDA m : m \in {"Verified", "Unverified"})

MismatchLogged ==
    \E i \in 1..Len(engine.msg_info) :
        engine.msg_info[i] =
            "Server certificate could not be verified: hostname mismatch"

C24_VerifiedWitness ==
    /\ Established /\ enforce_peername
    /\ var_smtp_tls_loglevel >= 1
    /\ engine.msg_info = <<"Verified", "TLS connection established">>

\* no certificate under enforcement: no summary, the mismatch logged
C24_NoCertWitness ==
    /\ Failed /\ Completed /\ ~engine.verify_extract_peer
    /\ engine.msg_info =
          <<"Server certificate could not be verified: hostname mismatch">>

====
